---- MODULE Spec2Model ----
(***************************************************************************)
(* The mindmap editor server (src/editor/server.py): the document store    *)
(* behind GET/PUT /api/files/{path}, the WebSocket endpoint /ws with its   *)
(* node_update handler, and the broadcast of file_updated events to the    *)
(* list of connected clients.                                              *)
(*                                                                         *)
(* A Python str is a sequence of one-character tokens; "\n" and "\r" are   *)
(* the line feed and the carriage return, EACUTE is a character whose      *)
(* UTF-8 encoding takes two bytes.  The server is one asyncio event loop:  *)
(* an action is the code a coroutine runs between two suspension points.   *)
(* The file system is POSIX and holds no symbolic links.                   *)
(***************************************************************************)
EXTENDS Integers, Sequences, FiniteSets, TLC

(***************************************************************************)
(* Bounds of the model.                                                    *)
(***************************************************************************)
\* requests (GET, PUT, WebSocket messages) served in one behaviour
MaxRequests == 2

\* chat requests the limiter has counted in the windows that are open
MaxHits == 12

\* messages the agent runtime produces for one chat
MaxRuntimeMessages == 2

(***************************************************************************)
(* Sequences                                                               *)
(***************************************************************************)
StartsWith(s, prefix) ==
    /\ Len(prefix) <= Len(s)
    /\ SubSeq(s, 1, Len(prefix)) = prefix

\* the least i with SubSeq(s, i, i + Len(sub) - 1) = sub, 0 when there is none
\* (str.find)
Find(s, sub) ==
    LET hits == {i \in 1..(Len(s) - Len(sub) + 1) : SubSeq(s, i, i + Len(sub) - 1) = sub}
    IN  IF hits = {} THEN 0 ELSE CHOOSE i \in hits : \A j \in hits : i <= j

\* sub in s
Contains(s, sub) == Find(s, sub) # 0

\* s.replace(old, new, 1)
ReplaceFirst(s, old, new) ==
    LET i == Find(s, old)
    IN  IF i = 0 THEN s
        ELSE SubSeq(s, 1, i - 1) \o new \o SubSeq(s, i + Len(old), Len(s))

RECURSIVE Split(_, _)
\* s.split(sep) for a one-character sep: always at least one piece
Split(s, sep) ==
    LET i == Find(s, <<sep>>)
    IN  IF i = 0 THEN <<s>>
        ELSE <<SubSeq(s, 1, i - 1)>> \o Split(SubSeq(s, i + 1, Len(s)), sep)

RECURSIVE Join(_, _)
\* sep.join(pieces)
Join(pieces, sep) ==
    IF pieces = <<>> THEN <<>>
    ELSE IF Len(pieces) = 1 THEN pieces[1]
    ELSE pieces[1] \o <<sep>> \o Join(Tail(pieces), sep)

RECURSIVE SelectSeg(_)
\* the path segments pathlib keeps: empty segments and "." are dropped
SelectSeg(pieces) ==
    IF pieces = <<>> THEN <<>>
    ELSE IF pieces[1] = <<>> \/ pieces[1] = <<".">> THEN SelectSeg(Tail(pieces))
    ELSE <<pieces[1]>> \o SelectSeg(Tail(pieces))

(***************************************************************************)
(* Paths.  A path is the sequence of its segments below "/".               *)
(***************************************************************************)
PROJECT_ROOT == << <<"p">> >>
MINDMAP_DIR == PROJECT_ROOT \o << <<"m">> >>

\* MINDMAP_DIR / file_path: an absolute file_path replaces the base
PathJoin(base, file_path) ==
    LET segs == SelectSeg(Split(file_path, "/"))
    IN  IF file_path # <<>> /\ file_path[1] = "/" THEN segs ELSE base \o segs

RECURSIVE ResolveFrom(_, _)
\* Path.resolve() where no segment is a symbolic link: ".." drops the last
\* segment, and stays at "/" when there is none
ResolveFrom(done, segs) ==
    IF segs = <<>> THEN done
    ELSE IF segs[1] = <<".", ".">>
         THEN ResolveFrom(IF done = <<>> THEN <<>> ELSE SubSeq(done, 1, Len(done) - 1),
                          Tail(segs))
         ELSE ResolveFrom(Append(done, segs[1]), Tail(segs))

Resolve(path) == ResolveFrom(<<>>, path)

\* str(path)
PathStr(path) == IF path = <<>> THEN <<"/">> ELSE <<"/">> \o Join(path, "/")

\* full_path = (MINDMAP_DIR / file_path).resolve()
FullPath(file_path) == Resolve(PathJoin(MINDMAP_DIR, file_path))

\* the containment test of the handlers:
\* str(full_path).startswith(str(MINDMAP_DIR.resolve()))
PathAllowed(full_path) == StartsWith(PathStr(full_path), PathStr(Resolve(MINDMAP_DIR)))

(***************************************************************************)
(* Text and bytes.  A str value is [text, pad]: the characters of text     *)
(* followed by pad copies of the ASCII character FILL, which stands for a  *)
(* long run such as "A" * n; no old_text or new_text of the model holds    *)
(* FILL.  A file holds [bytes, pad] the same way.                          *)
(***************************************************************************)
MAX_FILE_SIZE == 1048576

EACUTE == "U+00E9"

Str(text, pad) == [text |-> text, pad |-> pad]

\* len(s)
StrLen(s) == Len(s.text) + s.pad

\* the UTF-8 encoding of one character
Utf8(ch) == IF ch = EACUTE THEN <<"0xC3", "0xA9">> ELSE <<ch>>

RECURSIVE Encode(_)
\* text.encode("utf-8")
Encode(text) == IF text = <<>> THEN <<>> ELSE Utf8(Head(text)) \o Encode(Tail(text))

RECURSIVE Decode(_)
\* bytes.decode("utf-8") of bytes that Encode produced
Decode(bytes) ==
    IF bytes = <<>> THEN <<>>
    ELSE IF Head(bytes) = "0xC3" /\ Len(bytes) >= 2 /\ bytes[2] = "0xA9"
         THEN <<EACUTE>> \o Decode(Tail(Tail(bytes)))
         ELSE <<Head(bytes)>> \o Decode(Tail(bytes))

\* len(s.encode("utf-8"))
Utf8Len(s) == Len(Encode(s.text)) + s.pad

\* the test on len(data.content), the number the log line 188 prints
TooLargeByCharacters(content) == StrLen(content) > MAX_FILE_SIZE

\* line 187: len(data.content.encode("utf-8")) > MAX_FILE_SIZE
TooLarge(content) == Utf8Len(content) > MAX_FILE_SIZE

RECURSIVE UniversalNewlines(_)
\* what a text-mode read with newline=None returns: "\r\n" and "\r" become "\n"
UniversalNewlines(text) ==
    IF text = <<>> THEN <<>>
    ELSE IF Head(text) = "\r"
         THEN IF Len(text) >= 2 /\ text[2] = "\n"
              THEN <<"\n">> \o UniversalNewlines(Tail(Tail(text)))
              ELSE <<"\n">> \o UniversalNewlines(Tail(text))
         ELSE <<Head(text)>> \o UniversalNewlines(Tail(text))

(***************************************************************************)
(* The file system: a node for every path of Universe.                     *)
(***************************************************************************)
NoNode == [kind |-> "none", bytes |-> <<>>, pad |-> 0]
DirNode == [kind |-> "dir", bytes |-> <<>>, pad |-> 0]
FileNode(bytes, pad) == [kind |-> "file", bytes |-> bytes, pad |-> pad]

\* Path.exists()
Exists(files, path) == files[path].kind # "none"

\* Path.is_file()
IsFile(files, path) == files[path].kind = "file"

\* Path.read_text(encoding="utf-8") of a regular file
ReadText(node) == Str(UniversalNewlines(Decode(node.bytes)), node.pad)

RECURSIVE CrLf(_)
CrLf(text) ==
    IF text = <<>> THEN <<>>
    ELSE IF Head(text) = "\n" THEN <<"\r", "\n">> \o CrLf(Tail(text))
    ELSE <<Head(text)>> \o CrLf(Tail(text))

\* write_text where os.linesep is "\r\n": every "\n" is written as "\r\n"
WrittenFileCrLf(s) == FileNode(Encode(CrLf(s.text)), s.pad)

\* the file Path.write_text(s, encoding="utf-8") leaves ("\n" is os.linesep)
WrittenFile(s) == FileNode(Encode(s.text), s.pad)

Parent(path) == SubSeq(path, 1, Len(path) - 1)

Prefixes(path) == {SubSeq(path, 1, n) : n \in 0..Len(path)}

\* Path.mkdir(parents=True, exist_ok=True) fails when the path or one of its
\* ancestors is a regular file
MkdirFails(files, dir) == \E q \in Prefixes(dir) : files[q].kind = "file"

MkdirParents(files, dir) ==
    [q \in DOMAIN files |-> IF q \in Prefixes(dir) /\ files[q].kind = "none"
                            THEN DirNode ELSE files[q]]

(***************************************************************************)
(* The directory tree of get_tree and the listing of list_files.           *)
(***************************************************************************)
\* the characters of the model's file names, by code point
Alphabet == <<".", "/", "2", "a", "b", "c", "d", "e", "h", "m", "n", "p", "s", "t", "x">>
Ord(ch) == CHOOSE i \in 1..Len(Alphabet) : Alphabet[i] = ch

RECURSIVE StrLess(_, _)
\* a < b for two str values
StrLess(a, b) ==
    IF b = <<>> THEN FALSE
    ELSE IF a = <<>> THEN TRUE
    ELSE IF Head(a) # Head(b) THEN Ord(Head(a)) < Ord(Head(b))
    ELSE StrLess(Tail(a), Tail(b))

RECURSIVE PathLess(_, _)
\* p < q for two Path values: segment by segment
PathLess(p, q) ==
    IF q = <<>> THEN FALSE
    ELSE IF p = <<>> THEN TRUE
    ELSE IF Head(p) # Head(q) THEN StrLess(Head(p), Head(q))
    ELSE PathLess(Tail(p), Tail(q))

RECURSIVE Sorted(_)
\* sorted(paths)
Sorted(paths) ==
    IF paths = {} THEN <<>>
    ELSE LET least == CHOOSE p \in paths : \A q \in paths \ {p} : PathLess(p, q)
         IN  <<least>> \o Sorted(paths \ {least})

\* the file name content.md
CONTENT_MD == <<"c">>

\* CONFIG["project"]["title"] and CONFIG["modules"] of a features.json that
\* names one module
TITLE == "Mindmap Editor"
CONFIG_MODULES == [id \in {<<"d">>} |-> <<"D">>]

\* Path.name
Name(path) == path[Len(path)]

\* name.startswith(".")
Hidden(name) == StartsWith(name, <<".">>)

\* Path.is_dir()
IsDir(files, path) == files[path].kind = "dir"

\* Path.iterdir()
Iterdir(files, directory) ==
    {q \in DOMAIN files : q # <<>> /\ Parent(q) = directory /\ Exists(files, q)}

\* every subdirectory, the hidden ones too
SubdirsWithHidden(files, directory) == {q \in Iterdir(files, directory) : IsDir(files, q)}

\* the subdirectories build_tree_recursive and get_tree descend into
\* (lines 254 and 264)
Subdirs(files, directory) ==
    {q \in Iterdir(files, directory) : IsDir(files, q) /\ ~Hidden(Name(q))}

\* read_content_file (lines 237-241) where path is no directory
ReadContentFile(files, path) ==
    IF path \in DOMAIN files /\ Exists(files, path) THEN ReadText(files[path]) ELSE Str(<<>>, 0)

RECURSIVE BuildTreeRaises(_, _)
\* build_tree_recursive raises: read_text of a content.md that is a
\* directory, here or further down
BuildTreeRaises(files, directory) ==
    \/ LET path == Append(directory, CONTENT_MD)
       IN  path \in DOMAIN files /\ IsDir(files, path)
    \/ \E subdir \in Subdirs(files, directory) : BuildTreeRaises(files, subdir)

RECURSIVE BuildTreeRecursive(_, _)
\* build_tree_recursive (lines 243-258)
BuildTreeRecursive(files, directory) ==
    LET subdirs == Sorted(Subdirs(files, directory))
    IN  [id |-> Name(directory),
         name |-> IF Name(directory) \in DOMAIN CONFIG_MODULES
                  THEN CONFIG_MODULES[Name(directory)] ELSE Name(directory),
         content |-> ReadContentFile(files, Append(directory, CONTENT_MD)),
         children |-> [i \in 1..Len(subdirs) |-> BuildTreeRecursive(files, subdirs[i])]]

\* get_tree (lines 260-273): the value returned, <<>> when it raises
TreeRaises(files) == \E module_dir \in Subdirs(files, MINDMAP_DIR) : BuildTreeRaises(files, module_dir)

Tree(files) ==
    LET module_dirs == Sorted(Subdirs(files, MINDMAP_DIR))
    IN  [title |-> TITLE,
         modules |-> [i \in 1..Len(module_dirs) |-> BuildTreeRecursive(files, module_dirs[i])]]

\* MINDMAP_DIR.rglob("content.md"): every path of that name below the root
Rglob(files) ==
    {q \in DOMAIN files : /\ Len(q) > Len(MINDMAP_DIR)
                          /\ SubSeq(q, 1, Len(MINDMAP_DIR)) = MINDMAP_DIR
                          /\ Exists(files, q)
                          /\ Name(q) = CONTENT_MD}

\* content_file.relative_to(MINDMAP_DIR)
RelativeTo(path, base) == SubSeq(path, Len(base) + 1, Len(path))

\* list_files (lines 149-157)
Files(files) ==
    LET found == Sorted(Rglob(files))
    IN  [i \in 1..Len(found) |->
            LET rel_path == RelativeTo(found[i], MINDMAP_DIR)
            IN  [path |-> Join(rel_path, "/"), name |-> Name(found[i]),
                 module |-> rel_path[1]]]

(***************************************************************************)
(* The targeted replace of handle_node_update, on the content read.        *)
(* An optional JSON field is <<>> (absent or null) or <<value>>; a         *)
(* line_number value is [isint, n].                                        *)
(***************************************************************************)
None == <<>>
Some(v) == <<v>>
LineInt(n) == [isint |-> TRUE, n |-> n]
LineNotInt == [isint |-> FALSE, n |-> 0]

\* content.split('\n'); the padding belongs to the last line
Lines(content) == Split(content.text, "\n")

\* LineReplace without the test 0 <= line_idx: a negative index counts from
\* the end of the list
LineReplaceFromEnd(content, line_number, old_text, new_text) ==
    LET lines == Lines(content)
        line_idx == line_number - 1
        at == IF line_idx < 0 THEN Len(lines) + line_idx + 1 ELSE line_idx + 1
    IN  IF line_idx < Len(lines) /\ at >= 1
        THEN IF Contains(lines[at], old_text)
             THEN [reply |-> "update_success",
                   content |-> Str(Join([lines EXCEPT ![at] =
                                            ReplaceFirst(lines[at], old_text, new_text)],
                                        "\n"),
                                   content.pad)]
             ELSE [reply |-> "text_not_found_at_line", content |-> content]
        ELSE [reply |-> "invalid_line_number", content |-> content]

\* lines 397-426: the replace within line line_number
LineReplace(content, line_number, old_text, new_text) ==
    LET lines == Lines(content)
        line_idx == line_number - 1
    IN  IF 0 <= line_idx /\ line_idx < Len(lines)
        THEN IF Contains(lines[line_idx + 1], old_text)
             THEN [reply |-> "update_success",
                   content |-> Str(Join([lines EXCEPT ![line_idx + 1] =
                                            ReplaceFirst(lines[line_idx + 1], old_text, new_text)],
                                        "\n"),
                                   content.pad)]
             ELSE [reply |-> "text_not_found_at_line", content |-> content]
        ELSE [reply |-> "invalid_line_number", content |-> content]

\* lines 428-445: the replace of the first match in the whole content
FirstMatchReplace(content, old_text, new_text) ==
    IF Contains(content.text, old_text)
    THEN [reply |-> "update_success",
          content |-> Str(ReplaceFirst(content.text, old_text, new_text), content.pad)]
    ELSE [reply |-> "text_not_found_in_file", content |-> content]

\* lines 395-445: "raised" is the TypeError of line_number - 1 for a
\* line_number that is no number
TargetedReplace(content, line_number, old_text, new_text) ==
    IF line_number # None
    THEN IF line_number[1].isint
         THEN LineReplace(content, line_number[1].n, old_text, new_text)
         ELSE [reply |-> "raised", content |-> content]
    ELSE FirstMatchReplace(content, old_text, new_text)

(***************************************************************************)
(* Locales (get_locale).  A locale is a str, as the path parameter.        *)
(***************************************************************************)
LowerCase == {"e", "f", "g", "h", "i", "l", "n", "r", "s", "z"}
UpperCase == {"A", "E", "N", "S", "T", "U", "W"}

\* the locale files of EDITOR_DIR / "locales", by locale
LOCALE_FILES == {<<"e", "n">>, <<"z", "h", "-", "T", "W">>}
DEFAULT_LOCALE == <<"e", "n">>

\* the pattern [a-z]{2}(-[A-Z]{2})? matches all of s
LocalePattern(s) ==
    \/ /\ Len(s) = 2
       /\ s[1] \in LowerCase /\ s[2] \in LowerCase
    \/ /\ Len(s) = 5
       /\ s[1] \in LowerCase /\ s[2] \in LowerCase
       /\ s[3] = "-"
       /\ s[4] \in UpperCase /\ s[5] \in UpperCase

\* line 221: re.match(r'^[a-z]{2}(-[A-Z]{2})?$', locale); "$" matches at the
\* end of the string and before a line feed that ends the string
LocaleMatch(locale) ==
    \/ LocalePattern(locale)
    \/ /\ locale # <<>>
       /\ locale[Len(locale)] = "\n"
       /\ LocalePattern(SubSeq(locale, 1, Len(locale) - 1))

\* json.loads(locale_path.read_text()) of the file of a locale
LocaleStrings(locale) == [strings_of |-> locale]

\* get_locale (lines 217-230): the response, and the locale files it tested
\* for existence and read
LocaleResponse(locale) ==
    IF ~LocaleMatch(locale)
    THEN [op |-> "locale", locale |-> locale, status |-> "400", strings |-> <<>>,
          probed |-> {}, read |-> {}]
    ELSE IF locale \in LOCALE_FILES
    THEN [op |-> "locale", locale |-> locale, status |-> "200",
          strings |-> LocaleStrings(locale), probed |-> {locale}, read |-> {locale}]
    ELSE IF DEFAULT_LOCALE \in LOCALE_FILES
    THEN [op |-> "locale", locale |-> locale, status |-> "200",
          strings |-> LocaleStrings(DEFAULT_LOCALE),
          probed |-> {locale, DEFAULT_LOCALE}, read |-> {DEFAULT_LOCALE}]
    ELSE [op |-> "locale", locale |-> locale, status |-> "200", strings |-> <<>>,
          probed |-> {locale, DEFAULT_LOCALE}, read |-> {}]

(***************************************************************************)
(* The agent proxy (agent_chat): the rate limit, the messages of the agent *)
(* runtime and the events of the stream.                                   *)
(***************************************************************************)
\* line 294: "10/minute", a fixed window per client address
RATE_LIMIT == 10

\* the limiter counts the hit, then tests the counter against the limit
RateLimitExceeded(counter) == counter > RATE_LIMIT

\* lines 95-97: rate_limit_handler returns the HTTPException it builds with
\* status_code=429, it neither raises it nor returns a response; the
\* framework calls the returned value as a response, which raises TypeError,
\* and the request is answered 500
RateLimitStatus == "500"

\* line 297: if not AGENT_SDK_AVAILABLE
AgentAlwaysAvailable(available) == FALSE
AgentUnavailable(available) == ~available

\* the content blocks and the messages of the runtime
TextBlock(text) == [has_text |-> TRUE, text |-> text, type |-> "text", name |-> ""]
ToolUseBlock(name) == [has_text |-> FALSE, text |-> "", type |-> "tool_use", name |-> name]
OtherBlock == [has_text |-> FALSE, text |-> "", type |-> "thinking", name |-> ""]

AssistantMessage(content) ==
    [has_type |-> TRUE, type |-> "assistant", content |-> content, result |-> ""]
ResultMessage(result) ==
    [has_type |-> TRUE, type |-> "result", content |-> <<>>, result |-> result]
SystemMessage == [has_type |-> TRUE, type |-> "system", content |-> <<>>, result |-> ""]
UntypedMessage == [has_type |-> FALSE, type |-> "", content |-> <<>>, result |-> "u"]

\* the events of the stream
TextEvent(content) == [type |-> "text", content |-> content]
ToolUseEvent(tool) == [type |-> "tool_use", tool |-> tool]
ResultEvent(content) == [type |-> "result", content |-> content]
MessageEvent(content) == [type |-> "message", content |-> content]
DoneEvent == [done |-> TRUE]
ErrorEvent(error) == [error |-> error]

RECURSIVE BlockEvents(_)
\* lines 322-326: the events of the blocks of an assistant message
BlockEvents(content) ==
    IF content = <<>> THEN <<>>
    ELSE LET block == Head(content)
         IN  (IF block.has_text THEN <<TextEvent(block.text)>>
              ELSE IF block.type = "tool_use" THEN <<ToolUseEvent(block.name)>>
              ELSE <<>>)
             \o BlockEvents(Tail(content))

\* lines 319-331: the events one message of the runtime yields
MessageEvents(message) ==
    IF message.has_type
    THEN IF message.type = "assistant" THEN BlockEvents(message.content)
         ELSE IF message.type = "result" THEN <<ResultEvent(message.result)>>
         ELSE <<>>
    ELSE <<MessageEvent(message.result)>>

(***************************************************************************)
(* The inputs of the model.                                                *)
(***************************************************************************)
\* request paths: a document, its directory, a document of a directory that
\* does not exist yet, a document of the sibling directory /p/m2, and two
\* paths elsewhere
P_DOC == <<"d", "/", "c">>
P_DIR == <<"d">>
P_NEW == <<"e", "/", "c">>
P_SIBLING == <<".", ".", "/", "m", "2", "/", "c">>
P_OUTSIDE == <<".", ".", "/", "x">>
P_ABSOLUTE == <<"/", "t">>
FilePaths == {P_DOC, P_DIR, P_NEW, P_SIBLING, P_OUTSIDE, P_ABSOLUTE}

\* request paths of TreeSpec: documents of a module that sorts before d, of
\* a subdirectory, of a hidden directory at either depth, a file of another
\* name, and a document below a directory named content.md
P_B == <<"b", "/", "c">>
P_SUB == <<"d", "/", "s", "/", "c">>
P_HIDDEN == <<".", "h", "/", "c">>
P_SUBHIDDEN == <<"d", "/", ".", "h", "/", "c">>
P_NOTE == <<"d", "/", "n">>
P_NESTED == <<"e", "/", "c", "/", "c">>
TreePaths == {P_DOC, P_NEW, P_B, P_SUB, P_HIDDEN, P_SUBHIDDEN, P_NOTE, P_NESTED}

Universe == UNION {Prefixes(FullPath(p)) : p \in FilePaths \cup TreePaths}

\* the document the store starts with: "a\naa"
InitialText == <<"a", "\n", "a", "a">>

\* contents of PUT requests: "a\r\na", two strings of MAX_FILE_SIZE - 1
\* and MAX_FILE_SIZE characters that start with EACUTE, and a string of
\* MAX_FILE_SIZE ASCII characters that starts with "a"
PutPaths == {P_DOC, P_DIR, P_NEW, P_SIBLING, P_OUTSIDE}
PutContents ==
    { Str(<<"a", "\r", "\n", "a">>, 0),
      Str(<<EACUTE>>, MAX_FILE_SIZE - 2),
      Str(<<EACUTE, "a">>, MAX_FILE_SIZE - 2),
      Str(<<"a">>, MAX_FILE_SIZE - 1) }

\* the messages a client sends
NodeUpdate(file_path, line_number, old_text, new_text) ==
    [kind |-> "node_update", file_path |-> file_path, line_number |-> line_number,
     old_text |-> old_text, new_text |-> new_text]
OtherMessage(kind) ==
    [kind |-> kind, file_path |-> None, line_number |-> None,
     old_text |-> None, new_text |-> None]

LineNumbers == {None, Some(LineInt(0)), Some(LineInt(2)), Some(LineInt(3)), Some(LineNotInt)}
OldTexts == {<<"a">>, <<"b">>}
NewText == <<"b", "b">>

Messages ==
    {NodeUpdate(Some(P_DOC), n, Some(old), Some(NewText)) : n \in LineNumbers, old \in OldTexts}
    \cup {NodeUpdate(Some(p), None, Some(<<"a">>), Some(NewText)) :
            p \in {P_DIR, P_NEW, P_SIBLING, P_OUTSIDE}}
    \cup {NodeUpdate(Some(P_DOC), None, None, Some(NewText)),
          NodeUpdate(None, None, Some(<<"a">>), Some(NewText))}
    \cup {OtherMessage(k) : k \in {"not_json", "not_an_object", "unknown_type", "request_sync"}}

\* the inputs of LiveSpec, where two clients connect
LivePaths == {P_DOC}
LiveContents == {Str(<<"a", "\n", "b">>, 0)}
LiveMessages ==
    { NodeUpdate(Some(P_DOC), None, Some(<<"a">>), Some(NewText)),
      NodeUpdate(Some(P_DOC), Some(LineInt(2)), Some(<<"b">>), Some(NewText)),
      OtherMessage("not_json") }

\* the inputs of TreeSpec
TreeContents == {Str(<<"b">>, 0), Str(<<"a", "\r", "\n", "a">>, 0)}
TreeMessages ==
    { NodeUpdate(Some(P_DOC), None, Some(<<"a">>), Some(NewText)),
      OtherMessage("request_sync") }

\* the inputs of ApiSpec: locales of every shape the pattern tells apart,
\* two client addresses, the messages of the runtime
Locales ==
    { <<"e", "n">>, <<"z", "h", "-", "T", "W">>, <<"f", "r">>,
      <<"e", "n", "_", "U", "S">>, <<"e", "n", "g", "l", "i", "s", "h">>, <<"e">>,
      <<"E", "N">>, <<"z", "h", "-", "t", "w">>, <<"1", "2", "3">>,
      <<"e", "n", "-", "U", "S", "A">>, <<"e", "n", "\n">> }
Addrs == {"c1", "c2"}
RuntimeMessages ==
    { AssistantMessage(<<TextBlock("t"), OtherBlock, ToolUseBlock("Read")>>),
      ResultMessage("r"), SystemMessage, UntypedMessage }

Conns == {"w1", "w2"}
Https == {"h1"}
Tasks == Conns \cup Https

(***************************************************************************)
(* State                                                                   *)
(***************************************************************************)
VARIABLES
    fs,                 \* the file system: Universe -> node
    connected_clients,  \* the list connected_clients
    pc,                 \* where each handler is
    peer,               \* per connection: is the client still there
    inbox,              \* per connection: the messages the client received
    bc,                 \* per handler: its run of broadcast_update
    last,               \* the request served last and its outcome
    finished,           \* the run of broadcast_update that ended last
    nreq,               \* requests served so far
    lastPut,            \* per path: the content of the last PUT written there,
                        \* if nothing else wrote the path since
    issued,             \* calls of broadcast_update so far
    AGENT_SDK_AVAILABLE, \* the module constant, set at import
    limiter,            \* per client address: the hits of its current window
    chats,              \* per client address: the statuses of the chat
                        \* requests of its current window
    stream,             \* the event stream of the chat request served last
    answer              \* the last response of get_locale

store_vars == <<fs, connected_clients, pc, peer, inbox, bc, last, finished, nreq, lastPut, issued>>
api_vars == <<AGENT_SDK_AVAILABLE, limiter, chats, stream, answer>>
vars == <<fs, connected_clients, pc, peer, inbox, bc, last, finished, nreq, lastPut, issued,
          AGENT_SDK_AVAILABLE, limiter, chats, stream, answer>>

NoStr == Str(<<>>, 0)

\* the update_success and error messages among msgs
DirectReplies(msgs) ==
    Cardinality({i \in 1..Len(msgs) : msgs[i].type \in {"update_success", "error"}})

\* a request and its outcome: pre is the file before it, replies the number
\* of direct replies its connection had received before it
Event(op, who, file_path, status, content, touched, message) ==
    [seq |-> nreq + 1, op |-> op, who |-> who, file_path |-> file_path,
     full |-> FullPath(file_path), status |-> status, content |-> content,
     pre |-> IF FullPath(file_path) \in Universe THEN fs[FullPath(file_path)] ELSE NoNode,
     touched |-> touched, message |-> message, body |-> <<>>,
     replies |-> IF who \in DOMAIN inbox THEN DirectReplies(inbox[who]) ELSE 0]

NoEvent ==
    [seq |-> 0, op |-> "none", who |-> "none", file_path |-> <<>>, full |-> <<>>,
     status |-> "none", content |-> NoStr, pre |-> NoNode, touched |-> {},
     message |-> OtherMessage("none"), body |-> <<>>, replies |-> 0]

IdleBroadcast ==
    [state |-> "idle", idx |-> 0, ev |-> NoEvent, sent |-> <<>>, failed |-> {},
     start |-> {}, stay |-> {}]

\* a file_updated message that names the path only
FileUpdatedPathOnly(path, content) ==
    [type |-> "file_updated", path |-> path, content |-> NoStr, reason |-> ""]

\* lines 199-203, 410-414 and 434-438: the message handed to broadcast_update
FileUpdated(path, content) ==
    [type |-> "file_updated", path |-> path, content |-> content, reason |-> ""]
UpdateSuccess(path) ==
    [type |-> "update_success", path |-> path, content |-> NoStr, reason |-> ""]
ErrorMessage(reason) ==
    [type |-> "error", path |-> <<>>, content |-> NoStr, reason |-> reason]
SyncMessage(tree) ==
    [type |-> "sync", path |-> <<>>, content |-> NoStr, reason |-> "", tree |-> tree]

Range(seq) == {seq[i] : i \in 1..Len(seq)}

IdleStream ==
    [state |-> "idle", message |-> "", client |-> "none", forwarded |-> FALSE,
     consumed |-> 0, received |-> <<>>, events |-> <<>>, status |-> "none",
     raised |-> <<>>]

NoAnswer == [op |-> "none"]

\* the server has started, with or without the agent runtime
Started(available) ==
    /\ AGENT_SDK_AVAILABLE = available
    /\ limiter = [a \in Addrs |-> 0]
    /\ chats = [a \in Addrs |-> <<>>]
    /\ stream = IdleStream
    /\ answer = NoAnswer
    /\ fs = [q \in Universe |->
                IF q \in Prefixes(MINDMAP_DIR \o << <<"d">> >>) THEN DirNode
                ELSE IF q = FullPath(P_DOC) THEN FileNode(Encode(InitialText), 0)
                ELSE NoNode]
    /\ connected_clients = <<>>
    /\ pc = [t \in Tasks |-> IF t \in Conns THEN "new" ELSE "idle"]
    /\ peer = [c \in Conns |-> "up"]
    /\ inbox = [c \in Conns |-> <<>>]
    /\ bc = [t \in Tasks |-> IdleBroadcast]
    /\ last = NoEvent
    /\ finished = IdleBroadcast
    /\ nreq = 0
    /\ lastPut = [q \in Universe |-> None]
    /\ issued = 0

Init == Started(FALSE)

(***************************************************************************)
(* broadcast_update                                                        *)
(***************************************************************************)
\* a send_json to the connection succeeds: the client is there and the
\* endpoint has not returned
Open(c) == peer[c] = "up" /\ pc[c] \in {"recv", "bcast"}

OpenConns == {c \in Conns : Open(c)}

\* list.pop(): the last connection of the list goes, whichever it is
RemoveLast(clients, c) == SubSeq(clients, 1, Len(clients) - 1)

\* list.remove(c): the first occurrence goes
Remove(clients, c) ==
    LET hits == {i \in 1..Len(clients) : clients[i] = c}
        i == CHOOSE k \in hits : \A j \in hits : k <= j
    IN  SubSeq(clients, 1, i - 1) \o SubSeq(clients, i + 1, Len(clients))

StartBroadcast(ev) ==
    [state |-> "sending", idx |-> 0, ev |-> ev, sent |-> <<>>, failed |-> {},
     start |-> Range(connected_clients), stay |-> Range(connected_clients)]

\* the exception of a send leaves broadcast_update
SendFailedRaises(b, client) ==
    [b EXCEPT !.state = "raised", !.sent = Append(@, client), !.failed = @ \cup {client}]

\* lines 453-454: the exception of a send is caught and logged, and the loop goes on
SendFailed(b, client) ==
    [b EXCEPT !.idx = @ + 1, !.sent = Append(@, client), !.failed = @ \cup {client}]

\* lines 450-454, from the list iterator's position to the next suspension:
\* the iterator yields clients[idx] and moves on, or the loop is over
BroadcastStep(b, clients, inb, open) ==
    IF b.idx < Len(clients)
    THEN LET client == clients[b.idx + 1]
         IN  IF client \in open
             THEN [b |-> [b EXCEPT !.idx = @ + 1, !.sent = Append(@, client)],
                   inbox |-> [inb EXCEPT ![client] =
                                 Append(@, FileUpdated(b.ev.file_path, b.ev.content))]]
             ELSE [b |-> SendFailed(b, client), inbox |-> inb]
    ELSE [b |-> [b EXCEPT !.state = "done"], inbox |-> inb]

\* the broadcasts under way no longer count c among the connections that
\* stayed registered
Unregistered(bcs, c) ==
    [t \in Tasks |-> IF bcs[t].state = "sending"
                     THEN [bcs[t] EXCEPT !.stay = @ \ {c}] ELSE bcs[t]]

\* write_file from "await broadcast_update" on (lines 199-205); an exception
\* leaving broadcast_update would be answered with 500
HttpContinue(h, b, starting) ==
    LET r == BroadcastStep(b, connected_clients, inbox, OpenConns)
    IN  /\ bc' = [bc EXCEPT ![h] = IF r.b.state = "sending" THEN r.b ELSE IdleBroadcast]
        /\ finished' = IF r.b.state = "sending" THEN finished ELSE r.b
        /\ inbox' = r.inbox
        /\ pc' = [pc EXCEPT ![h] = IF r.b.state = "sending" THEN "bcast" ELSE "idle"]
        /\ last' = IF r.b.state = "done" THEN [b.ev EXCEPT !.status = "200"]
                   ELSE IF r.b.state = "raised" THEN [b.ev EXCEPT !.status = "500"]
                   ELSE IF starting THEN b.ev ELSE last
        /\ UNCHANGED connected_clients

\* handle_node_update from "await broadcast_update" on (lines 410-416 and
\* 434-440), back into the loop of websocket_endpoint.  The send of
\* update_success to a connection that is gone raises: WebSocketDisconnect,
\* which the endpoint handles (line 367), or another exception, which it
\* does not.
WsContinue(c, b, starting) ==
    LET r == BroadcastStep(b, connected_clients, inbox, OpenConns)
    IN  IF r.b.state = "sending"
        THEN /\ bc' = [bc EXCEPT ![c] = r.b]
             /\ finished' = finished
             /\ inbox' = r.inbox
             /\ pc' = [pc EXCEPT ![c] = "bcast"]
             /\ last' = IF starting THEN b.ev ELSE last
             /\ UNCHANGED connected_clients
        ELSE IF r.b.state = "done" /\ peer[c] = "up"
        THEN /\ bc' = [bc EXCEPT ![c] = IdleBroadcast]
             /\ finished' = r.b
             /\ inbox' = [r.inbox EXCEPT ![c] = Append(@, UpdateSuccess(b.ev.file_path))]
             /\ pc' = [pc EXCEPT ![c] = "recv"]
             /\ last' = [b.ev EXCEPT !.status = "update_success"]
             /\ UNCHANGED connected_clients
        ELSE IF r.b.state = "done"
        THEN \E caught \in BOOLEAN :
             /\ bc' = IF caught THEN Unregistered([bc EXCEPT ![c] = IdleBroadcast], c)
                                ELSE [bc EXCEPT ![c] = IdleBroadcast]
             /\ finished' = r.b
             /\ inbox' = r.inbox
             /\ pc' = [pc EXCEPT ![c] = "ended"]
             /\ last' = [b.ev EXCEPT !.status = IF caught THEN "disconnected" ELSE "raised"]
             /\ connected_clients' = IF caught THEN Remove(connected_clients, c)
                                               ELSE connected_clients
        ELSE /\ bc' = [bc EXCEPT ![c] = IdleBroadcast]
             /\ finished' = r.b
             /\ inbox' = r.inbox
             /\ pc' = [pc EXCEPT ![c] = "ended"]
             /\ last' = [b.ev EXCEPT !.status = "raised"]
             /\ UNCHANGED connected_clients

\* a handler whose write_text came after the send it was suspended in
BroadcastResumeThenWrite(t) ==
    /\ pc[t] = "bcast"
    /\ IF t \in Https THEN HttpContinue(t, bc[t], FALSE) ELSE WsContinue(t, bc[t], FALSE)
    /\ fs' = [fs EXCEPT ![bc[t].ev.full] = WrittenFile(bc[t].ev.content)]
    /\ UNCHANGED <<peer, nreq, lastPut, issued>>

\* a handler resumes from the send it was suspended in
BroadcastResume(t) ==
    /\ pc[t] = "bcast"
    /\ IF t \in Https THEN HttpContinue(t, bc[t], FALSE) ELSE WsContinue(t, bc[t], FALSE)
    /\ UNCHANGED <<fs, peer, nreq, lastPut, issued>>

(***************************************************************************)
(* GET and PUT /api/files/{file_path}                                      *)
(***************************************************************************)
\* read_file (lines 160-174)
ReadFile(file_path) ==
    LET full == FullPath(file_path)
        Respond(status, content, touched) ==
            last' = Event("get", "get", file_path, status, content, touched,
                          OtherMessage("none"))
    IN  /\ nreq < MaxRequests
        /\ nreq' = nreq + 1
        /\ IF ~PathAllowed(full) THEN Respond("403", NoStr, {})
           ELSE IF ~Exists(fs, full) THEN Respond("404", NoStr, {full})
           ELSE IF ~IsFile(fs, full) THEN Respond("400", NoStr, {full})
           ELSE Respond("200", ReadText(fs[full]), {full})
        /\ UNCHANGED <<fs, connected_clients, pc, peer, inbox, bc, finished, lastPut, issued>>

\* write_file (lines 177-205) up to its first suspension; mkdir or
\* write_text raising OSError is answered with 500
WriteFile(h, file_path, content) ==
    LET full == FullPath(file_path)
        Respond(status, touched) ==
            /\ last' = Event("put", h, file_path, status, content, touched,
                             OtherMessage("none"))
            /\ UNCHANGED <<fs, connected_clients, pc, inbox, bc, finished, lastPut, issued>>
    IN  /\ pc[h] = "idle"
        /\ nreq < MaxRequests
        /\ nreq' = nreq + 1
        /\ UNCHANGED peer
        /\ IF ~PathAllowed(full) THEN Respond("403", {})
           ELSE IF TooLarge(content) THEN Respond("413", {})
           ELSE IF MkdirFails(fs, Parent(full)) THEN Respond("500", {Parent(full)})
           ELSE IF fs[full].kind = "dir" THEN Respond("500", {Parent(full), full})
           ELSE /\ fs' = [MkdirParents(fs, Parent(full)) EXCEPT ![full] = WrittenFile(content)]
                /\ lastPut' = [lastPut EXCEPT ![full] = Some(content)]
                /\ issued' = issued + 1
                /\ HttpContinue(h, StartBroadcast(Event("put", h, file_path, "pending", content,
                                                        {Parent(full), full},
                                                        OtherMessage("none"))),
                                TRUE)

(***************************************************************************)
(* GET /api/files and GET /api/tree                                        *)
(***************************************************************************)
\* list_files (lines 146-157)
ListFiles ==
    /\ nreq < MaxRequests
    /\ nreq' = nreq + 1
    /\ last' = [Event("list", "get", <<>>, "200", NoStr, {}, OtherMessage("none"))
                   EXCEPT !.body = Files(fs)]
    /\ UNCHANGED <<fs, connected_clients, pc, peer, inbox, bc, finished, lastPut, issued>>

\* get_tree (lines 233-273); an exception of read_text is answered with 500
GetTree ==
    /\ nreq < MaxRequests
    /\ nreq' = nreq + 1
    /\ last' = IF TreeRaises(fs)
               THEN Event("tree", "get", <<>>, "500", NoStr, {}, OtherMessage("none"))
               ELSE [Event("tree", "get", <<>>, "200", NoStr, {}, OtherMessage("none"))
                       EXCEPT !.body = Tree(fs)]
    /\ UNCHANGED <<fs, connected_clients, pc, peer, inbox, bc, finished, lastPut, issued>>

(***************************************************************************)
(* The WebSocket endpoint /ws                                              *)
(***************************************************************************)
\* lines 352-353
Connect(c) ==
    /\ pc[c] = "new"
    /\ pc' = [pc EXCEPT ![c] = "recv"]
    /\ connected_clients' = Append(connected_clients, c)
    /\ UNCHANGED <<fs, peer, inbox, bc, last, finished, nreq, lastPut, issued>>

\* the client goes away; the endpoint learns of it at its next receive
ClientClose(c) ==
    /\ pc[c] \in {"recv", "bcast"}
    /\ peer[c] = "up"
    /\ peer' = [peer EXCEPT ![c] = "gone"]
    /\ UNCHANGED <<fs, connected_clients, pc, inbox, bc, last, finished, nreq, lastPut, issued>>

\* lines 356 and 367-368: receive_text raises WebSocketDisconnect
Disconnect(c) ==
    /\ pc[c] = "recv"
    /\ peer[c] = "gone"
    /\ connected_clients' = Remove(connected_clients, c)
    /\ pc' = [pc EXCEPT ![c] = "ended"]
    /\ bc' = Unregistered(bc, c)
    /\ UNCHANGED <<fs, peer, inbox, last, finished, nreq, lastPut, issued>>

\* an exception other than WebSocketDisconnect leaves websocket_endpoint
\* (lines 354-368 have no handler for it)
EndpointRaises(c, ev) ==
    /\ pc' = [pc EXCEPT ![c] = "ended"]
    /\ last' = [ev EXCEPT !.status = "raised"]
    /\ UNCHANGED <<fs, connected_clients, inbox, bc, finished, lastPut, issued>>

\* handle_node_update (lines 371-445) up to its first suspension
HandleNodeUpdate(c, m) ==
    LET file_path == IF m.file_path = None THEN <<>> ELSE m.file_path[1]
        full == FullPath(file_path)
        Ev(status, content, touched) ==
            Event("node_update", c, file_path, status, content, touched, m)
        Reply(reason, touched) ==
            /\ inbox' = [inbox EXCEPT ![c] = Append(@, ErrorMessage(reason))]
            /\ last' = Ev(reason, NoStr, touched)
            /\ UNCHANGED <<fs, connected_clients, pc, bc, finished, lastPut, issued>>
    IN  IF file_path = <<>> \/ m.old_text = None \/ m.new_text = None
        THEN Reply("invalid_update_message", {})
        ELSE IF ~PathAllowed(full) THEN Reply("access_denied", {})
        ELSE IF ~Exists(fs, full) THEN Reply("file_not_found", {full})
        ELSE IF ~IsFile(fs, full) THEN EndpointRaises(c, Ev("pending", NoStr, {full}))
        ELSE LET out == TargetedReplace(ReadText(fs[full]), m.line_number,
                                        m.old_text[1], m.new_text[1])
             IN  IF out.reply = "raised"
                 THEN EndpointRaises(c, Ev("pending", NoStr, {full}))
                 ELSE IF out.reply # "update_success" THEN Reply(out.reply, {full})
                 ELSE /\ fs' = [fs EXCEPT ![full] = WrittenFile(out.content)]
                      /\ lastPut' = [lastPut EXCEPT ![full] = None]
                      /\ issued' = issued + 1
                      /\ WsContinue(c, StartBroadcast(Ev("pending", out.content, {full})),
                                    TRUE)

\* lines 356-365: one message of the client
Receive(c, m) ==
    /\ pc[c] = "recv"
    /\ peer[c] = "up"
    /\ nreq < MaxRequests
    /\ nreq' = nreq + 1
    /\ UNCHANGED peer
    /\ IF m.kind \in {"not_json", "not_an_object"}
       THEN EndpointRaises(c, Event("message", c, <<>>, "pending", NoStr, {}, m))
       ELSE IF m.kind = "node_update" THEN HandleNodeUpdate(c, m)
       ELSE IF m.kind = "request_sync"
       THEN IF TreeRaises(fs)
            THEN EndpointRaises(c, Event("request_sync", c, <<>>, "pending", NoStr, {}, m))
            ELSE /\ inbox' = [inbox EXCEPT ![c] = Append(@, SyncMessage(Tree(fs)))]
                 /\ last' = [Event("request_sync", c, <<>>, "sync", NoStr, {}, m)
                                EXCEPT !.body = Tree(fs)]
                 /\ UNCHANGED <<fs, connected_clients, pc, bc, finished, lastPut, issued>>
       ELSE /\ last' = Event("message", c, <<>>, "ignored", NoStr, {}, m)
            /\ UNCHANGED <<fs, connected_clients, pc, inbox, bc, finished, lastPut, issued>>

(***************************************************************************)
(* GET /api/locales/{locale} and POST /api/agent/chat                      *)
(***************************************************************************)
RECURSIVE SumOver(_, _)
SumOver(counters, addrs) ==
    IF addrs = {} THEN 0
    ELSE LET a == CHOOSE x \in addrs : TRUE
         IN  counters[a] + SumOver(counters, addrs \ {a})

\* the hits the limiter holds
Sum(counters) == SumOver(counters, DOMAIN counters)

\* get_locale (lines 217-230)
GetLocale(locale) ==
    /\ answer' = LocaleResponse(locale)
    /\ UNCHANGED <<AGENT_SDK_AVAILABLE, limiter, chats, stream>>

\* agent_chat (lines 293-345) up to the response: the limiter of line 294
\* counts the request and rejects it over the limit, the handler rejects it
\* when the runtime is not available, else it returns the StreamingResponse
AgentChat(addr, message) ==
    LET counter == limiter[addr] + 1
        status == IF RateLimitExceeded(counter) THEN RateLimitStatus
                  ELSE IF AgentUnavailable(AGENT_SDK_AVAILABLE) THEN "503"
                  ELSE "200"
    IN  /\ stream.state \in {"idle", "closed"}
        /\ Sum(limiter) < MaxHits
        /\ limiter' = [limiter EXCEPT ![addr] = counter]
        /\ chats' = [chats EXCEPT ![addr] = Append(@, status)]
        /\ stream' = IF status = "200"
                     THEN [IdleStream EXCEPT !.state = "open", !.message = message,
                                             !.status = status]
                     ELSE stream
        /\ UNCHANGED <<AGENT_SDK_AVAILABLE, answer>>

\* the window of a client address ends: its counter expires
WindowExpires(addr) ==
    /\ limiter[addr] > 0
    /\ limiter' = [limiter EXCEPT ![addr] = 0]
    /\ chats' = [chats EXCEPT ![addr] = <<>>]
    /\ UNCHANGED <<AGENT_SDK_AVAILABLE, stream, answer>>

\* the exception e leaves generate(): nothing more is emitted
StreamErrorPropagates(closed, e) ==
    [stream EXCEPT !.state = "closed", !.client = closed, !.raised = Append(@, e)]

\* lines 335-336: the exception e raised inside generate() is caught and
\* str(e) goes out as the terminal event
StreamError(closed, e) ==
    [stream EXCEPT !.state = "closed", !.client = closed, !.raised = Append(@, e),
                   !.events = Append(@, ErrorEvent(e))]

\* lines 305-314: the options and the client are built and the client is
\* entered, or one of them raises
StreamStart ==
    /\ stream.state = "open"
    /\ \E raised \in BOOLEAN :
          stream' = IF raised THEN StreamError("none", "start-up failed")
                    ELSE [stream EXCEPT !.state = "client", !.client = "open"]
    /\ UNCHANGED <<AGENT_SDK_AVAILABLE, limiter, chats, answer>>

\* line 315: the user message is forwarded, or query raises
StreamQuery ==
    /\ stream.state = "client"
    /\ \E raised \in BOOLEAN :
          stream' = IF raised THEN StreamError("closed", "query failed")
                    ELSE [stream EXCEPT !.state = "receiving", !.forwarded = TRUE]
    /\ UNCHANGED <<AGENT_SDK_AVAILABLE, limiter, chats, answer>>

\* lines 317-331: the runtime produces one more message
StreamMessage(message) ==
    /\ stream.state = "receiving"
    /\ stream.consumed < MaxRuntimeMessages
    /\ stream' = [stream EXCEPT !.consumed = @ + 1,
                                !.received = Append(@, message),
                                !.events = @ \o MessageEvents(message)]
    /\ UNCHANGED <<AGENT_SDK_AVAILABLE, limiter, chats, answer>>

\* line 317: receive_response raises
StreamRaises ==
    /\ stream.state = "receiving"
    /\ stream' = StreamError("closed", "iteration failed")
    /\ UNCHANGED <<AGENT_SDK_AVAILABLE, limiter, chats, answer>>

\* lines 314 and 333: the response is complete, the client is left, which
\* may raise, and the done event ends the stream
StreamEnds ==
    /\ stream.state = "receiving"
    /\ \E raised \in BOOLEAN :
          stream' = IF raised THEN StreamError("closed", "shutdown failed")
                    ELSE [stream EXCEPT !.state = "closed", !.client = "closed",
                                        !.events = Append(@, DoneEvent)]
    /\ UNCHANGED <<AGENT_SDK_AVAILABLE, limiter, chats, answer>>

Step(conns, get_paths, put_paths, contents, messages) ==
    \/ (\E file_path \in get_paths : ReadFile(file_path)) /\ UNCHANGED api_vars
    \/ (\E h \in Https, file_path \in put_paths, content \in contents :
          WriteFile(h, file_path, content)) /\ UNCHANGED api_vars
    \/ (\E c \in conns : Connect(c)) /\ UNCHANGED api_vars
    \/ (\E c \in conns : ClientClose(c)) /\ UNCHANGED api_vars
    \/ (\E c \in conns : Disconnect(c)) /\ UNCHANGED api_vars
    \/ (\E c \in conns, m \in messages : Receive(c, m)) /\ UNCHANGED api_vars
    \/ (\E t \in Tasks : BroadcastResume(t)) /\ UNCHANGED api_vars
    \/ ListFiles /\ UNCHANGED api_vars
    \/ GetTree /\ UNCHANGED api_vars

\* one client, requests of every kind
Next == Step({"w1"}, FilePaths, PutPaths, PutContents, Messages)

Spec == Init /\ [][Next]_vars

\* two clients, requests for one document
LiveNext == Step(Conns, LivePaths, LivePaths, LiveContents, LiveMessages)

LiveSpec == Init /\ [][LiveNext]_vars

\* one client, requests that shape the directory tree
TreeNext == Step({"w1"}, LivePaths, TreePaths, TreeContents, TreeMessages)

TreeSpec == Init /\ [][TreeNext]_vars

\* the locales and the agent proxy, with and without the agent runtime
ApiInit == \E available \in BOOLEAN : Started(available)

ApiNext ==
    \/ (\E locale \in Locales : GetLocale(locale)) /\ UNCHANGED store_vars
    \/ (\E addr \in Addrs : AgentChat(addr, "hello")) /\ UNCHANGED store_vars
    \/ (\E addr \in Addrs : WindowExpires(addr)) /\ UNCHANGED store_vars
    \/ StreamStart /\ UNCHANGED store_vars
    \/ StreamQuery /\ UNCHANGED store_vars
    \/ (\E message \in RuntimeMessages : StreamMessage(message)) /\ UNCHANGED store_vars
    \/ StreamRaises /\ UNCHANGED store_vars
    \/ StreamEnds /\ UNCHANGED store_vars

ApiSpec == ApiInit /\ [][ApiNext]_vars

(***************************************************************************)
(* Properties                                                              *)
(***************************************************************************)
\* full_path is the root directory or lies below it
InsideRoot(full_path) ==
    LET root == Resolve(MINDMAP_DIR)
    IN  /\ Len(root) <= Len(full_path)
        /\ \A i \in 1..Len(root) : full_path[i] = root[i]


\* the number of bytes of the UTF-8 encoding of a str value: one per
\* character, and one more for EACUTE
ByteLength(s) == StrLen(s) + Cardinality({i \in 1..Len(s.text) : s.text[i] = EACUTE})

\* no request was served after the one that last describes
Latest == last.seq = nreq

\* the last request is a node_update message with every field it needs
WellFormedUpdate ==
    /\ last.op = "node_update"
    /\ last.file_path # <<>>
    /\ last.message.old_text # None
    /\ last.message.new_text # None

\* C1: a GET, a PUT or a node_update whose path resolves outside the root
\* directory is rejected with 403 / "Access denied" and reads, creates and
\* modifies nothing: nothing outside the root comes to exist.
C1_OutsideRootRejected ==
    /\ (last.op \in {"get", "put"} \/ WellFormedUpdate) /\ ~InsideRoot(last.full)
          => last.status \in {"403", "access_denied"} /\ last.touched = {}
    /\ \A q \in Universe : ~InsideRoot(q) /\ q \notin Prefixes(MINDMAP_DIR)
          => fs[q].kind = "none"

\* C2: a GET that returns a document which a PUT wrote, nothing having
\* modified it since, returns exactly the content of that PUT.
C2_RoundTrip ==
    /\ last.op = "get"
    /\ last.status = "200"
    /\ InsideRoot(last.full)
    /\ lastPut[last.full] # None
    => last.content = lastPut[last.full][1]

\* C3: a PUT that passes the containment check is answered 413 exactly when
\* the UTF-8 encoding of its content has more than 1048576 bytes; content of
\* at most 1048576 bytes is written and acknowledged unless the target is a
\* directory.
C3_SizeCap ==
    last.op = "put" /\ last.status # "403"
    => /\ last.status = "413" <=> ByteLength(last.content) > 1048576
       /\ ByteLength(last.content) <= 1048576 /\ last.pre.kind # "dir"
            => /\ last.status \in {"pending", "200"}
               /\ Latest => fs[last.full] = WrittenFile(last.content)

\* a PUT of exactly 1048576 bytes in fewer characters was acknowledged
C3_Witness ==
    /\ last.op = "put"
    /\ last.status = "200"
    /\ ByteLength(last.content) = 1048576
    /\ StrLen(last.content) < 1048576
    /\ fs[last.full] = WrittenFile(last.content)

\* the lines of the bytes of a file, which "\n" separates
LineFeeds(text) == {i \in 1..Len(text) : text[i] = "\n"}
LineCount(text) == Cardinality(LineFeeds(text)) + 1
NthLineFeed(text, k) ==
    CHOOSE i \in LineFeeds(text) : Cardinality({j \in LineFeeds(text) : j < i}) = k - 1
LineFirst(text, n) == IF n = 1 THEN 1 ELSE NthLineFeed(text, n - 1) + 1
LineLast(text, n) == IF n = LineCount(text) THEN Len(text) ELSE NthLineFeed(text, n) - 1
LineOf(text, n) == SubSeq(text, LineFirst(text, n), LineLast(text, n))

\* text with the first occurrence of old in its line n replaced by new, and
\* nothing else changed
ReplacedInLine(text, n, old, new) ==
    LET k == LineFirst(text, n) + Find(LineOf(text, n), old) - 1
    IN  SubSeq(text, 1, k - 1) \o new \o SubSeq(text, k + Len(old), Len(text))

\* the last request is a node_update for a regular file inside the root
UpdateOfDocument ==
    /\ WellFormedUpdate
    /\ InsideRoot(last.full)
    /\ last.pre.kind = "file"

\* C4: a node_update whose line_number is in range and whose target line
\* contains old_text leaves the file equal to what it was, with the first
\* occurrence of old_text in that line replaced by new_text: every other
\* line, every other occurrence and every line separator is unchanged.
C4_LineScopedReplace ==
    /\ UpdateOfDocument
    /\ Latest
    /\ last.message.line_number # None
    /\ last.message.line_number[1].isint
    => LET before == Decode(last.pre.bytes)
           n == last.message.line_number[1].n
           old == last.message.old_text[1]
           new == last.message.new_text[1]
       IN  n \in 1..LineCount(before) /\ Contains(LineOf(before, n), old)
           => /\ last.status # "text_not_found_at_line"
              /\ last.status # "invalid_line_number"
              /\ Decode(fs[last.full].bytes) = ReplacedInLine(before, n, old, new)
              /\ fs[last.full].pad = last.pre.pad

FailedReplies == {"invalid_line_number", "text_not_found_at_line", "text_not_found_in_file"}

\* C5: a targeted replace fails as a no-op.  With the content as
\* handle_node_update reads it: a line_number outside 1..number of lines is
\* answered "Invalid line number", a target line (without line_number, a
\* content) that does not contain old_text is answered "Text not found"; the
\* step that answers so changes no file and sends nothing but that answer to
\* the sender, so no file_updated event goes out.
C5_FailedReplaceNoOp ==
    /\ [](UpdateOfDocument /\ Latest
            => LET content == ReadText(last.pre)
                   lines == Split(content.text, "\n")
                   line == last.message.line_number
                   old == last.message.old_text[1]
               IN  /\ line # None /\ line[1].isint /\ line[1].n \notin 1..Len(lines)
                        => last.status = "invalid_line_number"
                   /\ line # None /\ line[1].isint /\ line[1].n \in 1..Len(lines)
                        => (~Contains(lines[line[1].n], old)
                              <=> last.status = "text_not_found_at_line")
                   /\ line = None
                        => (~Contains(content.text, old)
                              <=> last.status = "text_not_found_in_file")
                   /\ last.status \in FailedReplies
                        => /\ fs[last.full] = last.pre
                           /\ bc[last.who].state = "idle"
                           /\ inbox[last.who] # <<>>
                           /\ inbox[last.who][Len(inbox[last.who])] = ErrorMessage(last.status))
    /\ [][last'.seq # last.seq /\ last'.op = "node_update" /\ last'.status \in FailedReplies
            => /\ fs' = fs
               /\ bc' = bc
               /\ finished' = finished
               /\ connected_clients' = connected_clients
               /\ \A c \in Conns :
                     inbox'[c] = IF c = last'.who
                                 THEN Append(inbox[c], ErrorMessage(last'.status))
                                 ELSE inbox[c]]_vars

\* a replace failed on a line that does not contain old_text although
\* another line of the document does
C5_Witness ==
    /\ UpdateOfDocument /\ Latest
    /\ last.message.line_number # None
    /\ last.message.line_number[1].isint
    /\ last.status = "text_not_found_at_line"
    /\ Contains(ReadText(last.pre).text, last.message.old_text[1])
    /\ fs[last.full] = last.pre

\* C6: a node_update without line_number whose old_text occurs in the file
\* leaves the file equal to what it was with the first occurrence of old_text
\* replaced by new_text, and is not answered with an error.
C6_WholeFileReplace ==
    /\ UpdateOfDocument
    /\ Latest
    /\ last.message.line_number = None
    => LET before == Decode(last.pre.bytes)
           old == last.message.old_text[1]
           new == last.message.new_text[1]
       IN  Contains(before, old)
           => /\ last.status # "text_not_found_in_file"
              /\ Decode(fs[last.full].bytes) = ReplaceFirst(before, old, new)
              /\ fs[last.full].pad = last.pre.pad

Count(seq, c) == Cardinality({i \in 1..Len(seq) : seq[i] = c})

\* the request that last describes is the one whose broadcast ended last
LastBroadcastEnded == finished.state # "idle" /\ last.seq = finished.ev.seq

C8_DeliveredOnce ==
    finished.state = "done"
    => \A c \in finished.stay : Count(finished.sent, c) = 1

\* C9: a connection is in connected_clients exactly while its endpoint runs;
\* once the endpoint has ended, for whatever reason, it is there no more.
C9_SubscriberLifecycle ==
    \A c \in Conns : c \in Range(connected_clients) <=> pc[c] \in {"recv", "bcast"}

\* C10: a GET is answered 403 for a path outside the root, else 404 when
\* nothing is there, else 400 for a directory, else 200 with the path and
\* the content of the file.
C10_ReadOutcome ==
    last.op = "get"
    => /\ last.status = IF ~InsideRoot(last.full) THEN "403"
                        ELSE IF last.pre.kind = "none" THEN "404"
                        ELSE IF last.pre.kind = "dir" THEN "400"
                        ELSE "200"
       /\ last.status = "200" => last.content = ReadText(last.pre)

\* a request step in which a PUT persisted its content
PutPersists == nreq' # nreq /\ last'.op = "put" /\ last'.status \in {"pending", "200"}

\* C11: every PUT that persists leaves the file equal to its content and
\* calls broadcast_update once; when the file already held that content from
\* the PUT before, the file and what a read of it returns are what they were
\* after the first write, and the second write has its own broadcast: two
\* writes, two broadcasts.
C11_WriteIdempotence ==
    [][PutPersists
         => /\ issued' = issued + 1
            /\ Decode(fs'[last'.full].bytes) = last'.content.text
            /\ fs'[last'.full].pad = last'.content.pad
            /\ lastPut[last'.full] = Some(last'.content)
                  => /\ fs'[last'.full] = fs[last'.full]
                     /\ ReadText(fs'[last'.full]) = ReadText(fs[last'.full])]_vars

\* the same content was written twice to one path, and two broadcasts were
\* issued
C11_Witness ==
    /\ last.op = "put"
    /\ last.status = "200"
    /\ nreq = 2
    /\ issued = 2
    /\ lastPut[last.full] = Some(last.content)
    /\ last.pre = fs[last.full]
    /\ Decode(last.pre.bytes) = last.content.text

\* C12: when a node_update has succeeded, every connection that was
\* registered throughout its broadcast and is still there, the sender among
\* them, has received file_updated with the path and the new content, and
\* the sender has received update_success for that path as well.
C12_UpdateReachesAll ==
    /\ LastBroadcastEnded
    /\ last.op = "node_update"
    /\ last.status = "update_success"
    => /\ \A c \in finished.stay :
             peer[c] = "up"
             => \E i \in 1..Len(inbox[c]) :
                   inbox[c][i] = FileUpdated(last.file_path, last.content)
       /\ \E i \in 1..Len(inbox[last.who]) :
             inbox[last.who][i] = UpdateSuccess(last.file_path)

\* C13: a node_update message that has been handled, its client still being
\* there, has brought its connection exactly one direct reply,
\* update_success or error, whatever the message held.
C13_ExactlyOneReply ==
    /\ last.op = "node_update"
    /\ last.status # "pending"
    /\ peer[last.who] = "up"
    => DirectReplies(inbox[last.who]) = last.replies + 1

RECURSIVE NodeIds(_)
\* the ids of a node of the tree and of the nodes below it
NodeIds(node) ==
    {node.id} \cup UNION {NodeIds(node.children[i]) : i \in 1..Len(node.children)}

TreeIds(tree) == UNION {NodeIds(tree.modules[i]) : i \in 1..Len(tree.modules)}

\* the last request was answered with a tree: GET /api/tree or request_sync
TreeAnswered ==
    \/ last.op = "tree" /\ last.status = "200"
    \/ last.op = "request_sync" /\ last.status = "sync"

\* C14: no node of a tree the server answers with, at any depth, is a
\* directory whose name starts with ".".
C14_NoHiddenNode ==
    TreeAnswered => \A id \in TreeIds(last.body) : id[1] # "."

\* a tree was built while a subdirectory of a module was hidden and held a
\* document
C14_Witness ==
    /\ TreeAnswered
    /\ Latest
    /\ fs[FullPath(P_SUBHIDDEN)].kind = "file"
    /\ Len(last.body.modules) = 1
    /\ last.body.modules[1].children = <<>>

\* the text of the document of a directory: of its content.md, empty when
\* there is none
DocText(dir) ==
    LET path == Append(dir, <<"c">>)
    IN  IF path \in Universe /\ fs[path].kind = "file"
        THEN Str(Decode(fs[path].bytes), fs[path].pad)
        ELSE Str(<<>>, 0)

\* the directories directly below dir whose names do not start with "."
VisibleSubdirs(dir) ==
    {q \in Universe : /\ Len(q) = Len(dir) + 1
                      /\ SubSeq(q, 1, Len(dir)) = dir
                      /\ fs[q].kind = "dir"
                      /\ q[Len(q)][1] # "."}

\* nodes are the nodes of the visible subdirectories of dir, one each, in
\* ascending order of name
RECURSIVE AreNodesOf(_, _)
AreNodesOf(nodes, dir) ==
    /\ Len(nodes) = Cardinality(VisibleSubdirs(dir))
    /\ \A i \in 1..Len(nodes) : \A j \in (i + 1)..Len(nodes) : StrLess(nodes[i].id, nodes[j].id)
    /\ \A i \in 1..Len(nodes) :
          \E q \in VisibleSubdirs(dir) :
             /\ nodes[i].id = q[Len(q)]
             /\ nodes[i].name = (IF nodes[i].id = <<"d">> THEN <<"D">> ELSE nodes[i].id)
             /\ nodes[i].content = DocText(q)
             /\ AreNodesOf(nodes[i].children, q)

\* C15: GET /api/tree answers with the tree of the file system as it is: one
\* node per directory that is not hidden, in ascending order of name, with
\* id, display name, the text of its content.md (empty without one) and the
\* nodes of its subdirectories; files are no nodes, and no file changes.
C15_TreeOfFileSystem ==
    /\ [](last.op = "tree" /\ Latest
            => /\ last.status = "200"
               /\ AreNodesOf(last.body.modules, MINDMAP_DIR))
    /\ [][nreq' # nreq /\ last'.op = "tree" => fs' = fs]_vars

\* the module of the tree with the given id, <<>> when there is none
ModuleOf(tree, id) ==
    LET hits == {i \in 1..Len(tree.modules) : tree.modules[i].id = id}
    IN  IF hits = {} THEN <<>> ELSE <<tree.modules[CHOOSE i \in hits : TRUE]>>

\* the document q was last written by a node_update
Replaced(q) ==
    /\ lastPut[q] = None
    /\ q = FullPath(P_DOC)
    /\ fs[q] # FileNode(Encode(InitialText), 0)

\* C16: the tree is read from the file system every time.  A tree request
\* that follows a PUT of <d>/content.md, d a directory directly under the
\* root that is not hidden, is answered with a tree that has a module d with
\* the content written; one that follows a node_update of such a document is
\* answered with the content as replaced.
C16_TreeNotCached ==
    \A q \in Universe :
       /\ last.op \in {"tree", "request_sync"}
       /\ Latest
       /\ Len(q) = Len(MINDMAP_DIR) + 2
       /\ SubSeq(q, 1, Len(MINDMAP_DIR)) = MINDMAP_DIR
       /\ q[Len(q)] = <<"c">>
       /\ q[Len(q) - 1][1] # "."
       /\ fs[q].kind = "file"
       /\ (lastPut[q] # None \/ Replaced(q))
       => /\ TreeAnswered
          /\ ModuleOf(last.body, q[Len(q) - 1]) # <<>>
          /\ lastPut[q] # None
                => ModuleOf(last.body, q[Len(q) - 1])[1].content = lastPut[q][1]
          /\ Replaced(q)
                => ModuleOf(last.body, q[Len(q) - 1])[1].content = ReadText(fs[q])

\* the files below the root
Documents ==
    {q \in Universe : /\ Len(q) > Len(MINDMAP_DIR)
                      /\ SubSeq(q, 1, Len(MINDMAP_DIR)) = MINDMAP_DIR
                      /\ fs[q].kind = "file"}

\* the path of q relative to the root, as a str
RelativeStr(q) == Join(SubSeq(q, Len(MINDMAP_DIR) + 1, Len(q)), "/")

\* C17: GET /api/files lists the files under the root, each once and
\* nothing else, in ascending order of path, each with its relative path,
\* its file name and its top-level directory.
C17_ListsEveryDocument ==
    last.op = "list" /\ Latest
    => /\ last.status = "200"
       /\ Len(last.body) = Cardinality(Documents)
       /\ \A q \in Documents :
             \E i \in 1..Len(last.body) :
                last.body[i] = [path |-> RelativeStr(q), name |-> q[Len(q)],
                                module |-> q[Len(MINDMAP_DIR) + 1]]
       /\ \A i \in 1..Len(last.body) : \A j \in (i + 1)..Len(last.body) :
             StrLess(last.body[i].path, last.body[j].path)

\* s is two lowercase letters, or two lowercase letters, "-" and two
\* uppercase letters, and nothing else
WellFormedLocale(s) ==
    /\ Len(s) \in {2, 5}
    /\ \A i \in 1..Len(s) : IF i <= 2 THEN s[i] \in LowerCase
                             ELSE IF i = 3 THEN s[i] = "-"
                             ELSE s[i] \in UpperCase

\* C18: GET /api/locales/{locale} answers 400, having looked at no locale
\* file, for every locale that is not well-formed, and 200 for every
\* well-formed one, with the strings of its file or, when it has none, of
\* the default locale.
C18_LocaleFormat ==
    answer.op = "locale"
    => IF WellFormedLocale(answer.locale)
       THEN /\ answer.status = "200"
            /\ answer.strings = LocaleStrings(IF answer.locale \in LOCALE_FILES
                                              THEN answer.locale ELSE DEFAULT_LOCALE)
       ELSE /\ answer.status = "400"
            /\ answer.probed = {}
            /\ answer.read = {}

\* C19: of the chat requests of one client address within one window, the
\* first ten, and no more, are admitted, whatever other addresses send, and
\* every further one is answered 429.
C19_RateLimit ==
    \A addr \in Addrs : \A i \in 1..Len(chats[addr]) :
       chats[addr][i] = IF i > 10 THEN "429"
                        ELSE IF AGENT_SDK_AVAILABLE THEN "200" ELSE "503"

\* C20 as stated: without the agent runtime every chat request is answered
\* 503, and no stream is opened.
C20_UnavailableIs503 ==
    ~AGENT_SDK_AVAILABLE
    => /\ \A addr \in Addrs : \A i \in 1..Len(chats[addr]) : chats[addr][i] = "503"
       /\ stream = IdleStream

\* C20, amended: without the agent runtime every chat request that the rate
\* limiter admits (the first ten of a window) is answered 503, none is
\* answered 200, and no stream is opened by any request: no client is
\* built, no message forwarded, no event emitted.
C20_UnavailableNoStream ==
    ~AGENT_SDK_AVAILABLE
    => /\ \A addr \in Addrs : \A i \in 1..Len(chats[addr]) :
             /\ i <= 10 => chats[addr][i] = "503"
             /\ chats[addr][i] # "200"
       /\ stream.state = "idle"
       /\ stream.client = "none"
       /\ ~stream.forwarded
       /\ stream.events = <<>>

\* without the agent runtime, ten requests of one address were answered 503
C20_Witness ==
    /\ ~AGENT_SDK_AVAILABLE
    /\ \E addr \in Addrs :
          /\ Len(chats[addr]) = 10
          /\ \A i \in 1..10 : chats[addr][i] = "503"
    /\ stream = IdleStream

\* the events of the text and tool-use blocks of an assistant message, one
\* per block, in the order of the blocks
RECURSIVE TextAndToolEvents(_)
TextAndToolEvents(content) ==
    IF content = <<>> THEN <<>>
    ELSE (IF Head(content).type = "text" THEN <<[type |-> "text", content |-> Head(content).text]>>
          ELSE IF Head(content).type = "tool_use"
          THEN <<[type |-> "tool_use", tool |-> Head(content).name]>>
          ELSE <<>>)
         \o TextAndToolEvents(Tail(content))

\* the events chunk are the events of the runtime message
Relays(message, chunk) ==
    IF message.has_type /\ message.type = "assistant"
    THEN chunk = TextAndToolEvents(message.content)
    ELSE IF message.has_type /\ message.type = "result"
    THEN chunk = <<[type |-> "result", content |-> message.result]>>
    ELSE chunk # <<>>

\* C21: every message the runtime produces is relayed when it is produced:
\* the stream grows by the events of that message, behind the events of
\* the messages before it, and by at least one event for a message of
\* another type or of no type; no message is dropped.
C21_RelaysEveryMessage ==
    [][stream'.consumed = stream.consumed + 1
         => /\ Len(stream'.received) = Len(stream.received) + 1
            /\ Len(stream'.events) >= Len(stream.events)
            /\ SubSeq(stream'.events, 1, Len(stream.events)) = stream.events
            /\ Relays(stream'.received[Len(stream'.received)],
                      SubSeq(stream'.events, Len(stream.events) + 1, Len(stream'.events)))]_vars

\* an event is terminal: done or error
Terminal(event) == "done" \in DOMAIN event \/ "error" \in DOMAIN event

\* C22: a stream that is opened is answered 200 and stays so; while it runs
\* it holds no terminal event; once it has ended it holds exactly one, as
\* its last event: done when nothing was raised, else error with the
\* message of the exception, wherever it was raised (start-up of the
\* client, query, iteration, shutdown of the client).
C22_OneTerminalEvent ==
    stream.state # "idle"
    => /\ stream.status = "200"
       /\ stream.state # "closed" => \A i \in 1..Len(stream.events) : ~Terminal(stream.events[i])
       /\ stream.state = "closed"
            => /\ stream.events # <<>>
               /\ \A i \in 1..Len(stream.events) :
                     Terminal(stream.events[i]) <=> i = Len(stream.events)
               /\ stream.events[Len(stream.events)] =
                     IF stream.raised = <<>> THEN [done |-> TRUE]
                     ELSE [error |-> stream.raised[1]]
               /\ Len(stream.raised) <= 1

\* the shutdown of the client raised after the runtime's messages had been
\* relayed: the stream ends with the error event, and holds no done event
C22_Witness ==
    /\ stream.state = "closed"
    /\ stream.raised = <<"shutdown failed">>
    /\ Len(stream.events) >= 3
    /\ stream.events[Len(stream.events)] = [error |-> "shutdown failed"]
    /\ \A i \in 1..Len(stream.events) : "done" \notin DOMAIN stream.events[i]

\* a step that serves a request_sync message
SyncServed == nreq' # nreq /\ last'.op = "request_sync"

\* C23: the step that serves a request_sync appends one sync message with
\* the tree of the file system as it is to the inbox of the requesting
\* connection and nothing to any other; it changes no file and not the list
\* of connections, and it starts no broadcast.
C23_SyncToRequesterOnly ==
    [][SyncServed
         => /\ Len(inbox'[last'.who]) = Len(inbox[last'.who]) + 1
            /\ LET reply == inbox'[last'.who][Len(inbox'[last'.who])]
               IN  /\ reply.type = "sync"
                   /\ reply.tree.title = "Mindmap Editor"
                   /\ AreNodesOf(reply.tree.modules, MINDMAP_DIR)
            /\ SubSeq(inbox'[last'.who], 1, Len(inbox[last'.who])) = inbox[last'.who]
            /\ \A c \in Conns \ {last'.who} : inbox'[c] = inbox[c]
            /\ fs' = fs
            /\ connected_clients' = connected_clients
            /\ bc' = bc
            /\ issued' = issued
            /\ finished' = finished]_vars

\* C24: a PUT for a path outside the root whose content is larger than the
\* cap is answered 403, not 413; and the step that answers a PUT with 403
\* or 413 writes no file, creates no directory, sends nothing and starts no
\* broadcast.
C24_RejectedWriteNoOp ==
    /\ [](last.op = "put" /\ ~InsideRoot(last.full) /\ ByteLength(last.content) > 1048576
            => last.status = "403")
    /\ [][nreq' # nreq /\ last'.op = "put" /\ last'.status \in {"403", "413"}
            => /\ fs' = fs
               /\ inbox' = inbox
               /\ bc' = bc
               /\ finished' = finished
               /\ issued' = issued
               /\ connected_clients' = connected_clients]_vars

\* a request step in which a PUT or a node_update persisted its content
Persists ==
    /\ nreq' # nreq
    /\ last'.op \in {"put", "node_update"}
    /\ last'.status \in {"pending", "200", "update_success"}

\* the messages a step brings the connection c
Arrived(c) == SubSeq(inbox'[c], Len(inbox[c]) + 1, Len(inbox'[c]))

\* the broadcast of t is under way after the step and was not before it
BroadcastStarts(t) ==
    /\ bc'[t].state = "sending"
    /\ bc[t].state # "sending" \/ bc'[t].ev # bc[t].ev

\* C25: a step that persists a PUT or a node_update leaves the file equal
\* to the content of the request and calls broadcast_update once, with the
\* request's path and that content; every other step (a read, a listing, a
\* tree, a request_sync, a failed PUT or node_update) changes no file and
\* calls it not at all.  Every file_updated message a connection receives
\* comes from a broadcast of a request that persisted, and carries that
\* request's path and content.
C25_BroadcastMirrorsPersist ==
    [][/\ Persists
            => /\ issued' = issued + 1
               /\ fs'[last'.full] = [kind |-> "file", bytes |-> Encode(last'.content.text),
                                     pad |-> last'.content.pad]
       /\ ~Persists
            => /\ issued' = issued
               /\ fs' = fs
       /\ \A t \in Tasks :
             BroadcastStarts(t)
             => /\ Persists
                /\ t = last'.who
                /\ bc'[t].ev.seq = last'.seq
                /\ bc'[t].ev.file_path = last'.file_path
                /\ bc'[t].ev.content = last'.content
       /\ \A c \in Conns :
             /\ Len(inbox'[c]) >= Len(inbox[c])
             /\ SubSeq(inbox'[c], 1, Len(inbox[c])) = inbox[c]
             /\ \A i \in 1..Len(Arrived(c)) :
                   Arrived(c)[i].type = "file_updated"
                   => \E t \in Tasks :
                         LET ev == IF bc[t].state = "sending" THEN bc[t].ev ELSE last'
                         IN  /\ bc[t].state = "sending" \/ (Persists /\ t = last'.who)
                             /\ Arrived(c)[i].path = ev.file_path
                             /\ Arrived(c)[i].content = ev.content]_vars

\* after a request that failed, a PUT persisted and its one broadcast
\* brought the connection the one file_updated message it holds
C25_Witness ==
    /\ nreq = 2
    /\ issued = 1
    /\ last.op = "put"
    /\ last.status = "200"
    /\ fs[last.full] = WrittenFile(last.content)
    /\ Len(inbox["w1"]) = 2
    /\ inbox["w1"][1].type = "error"
    /\ inbox["w1"][2] = FileUpdated(last.file_path, last.content)

\* what a node_update message makes of the text it reads: the first
\* old_text of the line, or of the text, replaced by new_text
Applied(text, message) ==
    IF message.line_number = None
    THEN ReplaceFirst(text, message.old_text[1], message.new_text[1])
    ELSE ReplacedInLine(text, message.line_number[1].n, message.old_text[1],
                        message.new_text[1])

\* the text the match check of a node_update message looks at
Checked(text, message) ==
    IF message.line_number = None THEN text
    ELSE LineOf(text, message.line_number[1].n)

\* C26: the file changes only in the steps that persist a request, and such
\* a step works on the file as it is when the step begins: a PUT leaves its
\* content, a node_update finds old_text in the current text and leaves
\* that text with the replacement made.  No handler writes after it was
\* suspended, so the content at any time is that of the persisted requests
\* applied one after the other, in the order of their steps.
C26_ReadCheckWriteAtomic ==
    [][/\ \A q \in Universe :
             fs'[q] # fs[q] => Persists /\ (q = last'.full \/ fs[q].kind = "none")
       /\ Persists /\ last'.op = "put"
            => /\ Decode(fs'[last'.full].bytes) = last'.content.text
               /\ fs'[last'.full].pad = last'.content.pad
       /\ Persists /\ last'.op = "node_update"
            => LET before == ReadText(fs[last'.full])
               IN  /\ fs[last'.full].kind = "file"
                   /\ Contains(Checked(before.text, last'.message), last'.message.old_text[1])
                   /\ Decode(fs'[last'.full].bytes) = Applied(before.text, last'.message)
                   /\ fs'[last'.full].pad = before.pad
                   /\ last'.content = Str(Applied(before.text, last'.message), before.pad)]_vars

\* two connections have each persisted a replace of the same document, the
\* second one while the broadcast of the first was under way, and the file
\* holds both replacements
C26_Witness ==
    /\ bc["w1"].state = "sending"
    /\ bc["w1"].ev.op = "node_update"
    /\ last.op = "node_update"
    /\ last.who = "w2"
    /\ last.seq > bc["w1"].ev.seq
    /\ last.full = bc["w1"].ev.full
    /\ bc["w1"].ev.content.text = <<"b", "b", "\n", "a", "a">>
    /\ Decode(fs[last.full].bytes) = <<"b", "b", "\n", "b", "b", "a">>

IsFileUpdated(message) == message.type = "file_updated"

\* the file_updated messages the connection c has received, in order
Updates(c) == SelectSeq(inbox[c], IsFileUpdated)

\* C27: once all broadcasts have finished, a connection that has received
\* the file_updated event of every modification has received them in the
\* order in which the modifications were persisted: the last one it
\* received carries the current content of its path.
C27_EventsInPersistOrder ==
    (\A t \in Tasks : bc[t].state = "idle")
    => \A c \in Conns :
          issued > 0 /\ Len(Updates(c)) = issued
          => LET event == Updates(c)[Len(Updates(c))]
                 full == FullPath(event.path)
             IN  /\ Decode(fs[full].bytes) = event.content.text
                 /\ fs[full].pad = event.content.pad

\* C28: a request is acknowledged (update_success to the sender of a
\* node_update, 200 to a PUT) only when its run of broadcast_update has
\* ended; by then the send to every connection that was registered
\* throughout the run has been attempted, and the sender of a node_update
\* holds file_updated before update_success.
C28_AckAfterBroadcast ==
    /\ last.status \in {"update_success", "200"} /\ last.op \in {"node_update", "put"}
          => /\ \A t \in Tasks : bc[t].state = "sending" => bc[t].ev.seq # last.seq
             /\ LastBroadcastEnded
                   => /\ finished.state = "done"
                      /\ \A c \in finished.stay : Count(finished.sent, c) >= 1
    /\ LastBroadcastEnded /\ last.op = "node_update" /\ last.status = "update_success"
          => \E i, j \in 1..Len(inbox[last.who]) :
                /\ i < j
                /\ inbox[last.who][i] = FileUpdated(last.file_path, last.content)
                /\ inbox[last.who][j] = UpdateSuccess(last.file_path)

\* C29: connected_clients never holds a connection twice, and it changes
\* in two ways only: a connection that is accepted is appended, and a
\* connection whose client is gone is taken out by its own endpoint, all
\* others staying, in their order.  No other step (a broadcast with or
\* without failed sends, a read, a write, a replace) changes it.
C29_SubscriberListFrame ==
    /\ [](\A i, j \in 1..Len(connected_clients) :
             i # j => connected_clients[i] # connected_clients[j])
    /\ [][connected_clients' # connected_clients
            => \E c \in Conns :
                  \/ /\ pc[c] = "new"
                     /\ pc'[c] = "recv"
                     /\ connected_clients' = connected_clients \o <<c>>
                  \/ /\ peer[c] = "gone"
                     /\ pc[c] \in {"recv", "bcast"}
                     /\ pc'[c] = "ended"
                     /\ \E k \in 1..Len(connected_clients) :
                           /\ connected_clients[k] = c
                           /\ connected_clients' =
                                 SubSeq(connected_clients, 1, k - 1)
                                 \o SubSeq(connected_clients, k + 1, Len(connected_clients))]_vars

\* a send to the first of two connections failed during a broadcast that
\* delivered to the second; the first was then taken out by its endpoint
\* and the second stayed
C29_Witness ==
    /\ finished.state = "done"
    /\ finished.sent = <<"w1", "w2">>
    /\ finished.failed = {"w1"}
    /\ connected_clients = <<"w2">>
    /\ pc["w1"] = "ended"
    /\ pc["w2"] = "recv"

\* C30: every file under the root holds at most 1048576 bytes.
C30_StoreWithinCap ==
    \A q \in Universe :
       InsideRoot(q) /\ fs[q].kind = "file" => Len(fs[q].bytes) + fs[q].pad <= 1048576

====
